---- MODULE Spec2Model ----
(***************************************************************************)
(* Persistence and session core of the collaborative editor backend:       *)
(* backend/src/server.ts (TextExtractor, the setPersistence callbacks) and *)
(* backend/src/custom-persistence.ts (CustomMongoPersistence), together    *)
(* with the document registry of websocket/utils that calls them.          *)
(*                                                                         *)
(* A Y.Doc is modelled by the set of structs (client, clock) it has        *)
(* received.  A struct is integrated when all earlier clocks of its client *)
(* are present; the other structs stay pending, and Yjs keeps pending      *)
(* structs in encodeStateAsUpdate.  An encoded update is a tagged record   *)
(* carrying the structs, or bytes that do not decode.                      *)
(***************************************************************************)
EXTENDS Integers, Sequences, FiniteSets, TLC

\* ---------------------------------------------------------------- bounds
MaxClock == 2
MaxOpens == 1
MaxConns == 2
MaxWrites == 2
MaxProviders == 2

\* ------------------------------------------------------------- universe
Docs == {"doc1"}
Clients == {"A", "B"}
\* Client B produces one struct fewer than client A.
ClockBound(c) == IF c = "A" THEN MaxClock ELSE MaxClock - 1
Op == {o \in Clients \X (0 .. MaxClock - 1) : o[2] < ClockBound(o[1])}

\* Client A types characters into the Y.Text named 'content'.  Client B is a
\* Lexical client: its first struct is a child of the 'root' XmlText (a list
\* item reachable from _start), its later structs are attributes of 'root'
\* (entries of _map).
\* Documents handed to the text extractor alone may also hold a struct of a
\* client L (a character in the Y.Text 'lexical'), of a client E (a character
\* in the Y.Text 'editor') and of a client N (a character in a text container
\* of another name, which a document built from updates holds as an untyped
\* AbstractType), and one more struct of client B, an attribute of 'root'.
OpKind(o) ==
    IF o[1] = "A" THEN "text"
    ELSE IF o[1] = "L" THEN "lexical"
    ELSE IF o[1] = "E" THEN "editor"
    ELSE IF o[1] = "N" THEN "other"
    ELSE IF o[2] = 0 THEN "rootChild" ELSE "rootAttr"

OpChar(o) ==
    IF o[1] = "L" THEN "l"
    ELSE IF o[1] = "E" THEN "e"
    ELSE IF o[1] = "N" THEN "n"
    ELSE IF o[2] = 0 THEN "a" ELSE "b"

OpX == Op \cup {<<"B", ClockBound("B")>>, <<"L", 0>>, <<"E", 0>>, <<"N", 0>>}

\* ------------------------------------------------------------ Yjs values
\* Structs of a document that are integrated: no clock gap below them.
Integrated(S) == {o \in S : \A k \in 0 .. o[2] - 1 : <<o[1], k>> \in S}

NewDoc == {}

\* Bytes of an update: the structs it carries.
UpdateBytes(S) == [tag |-> "update", structs |-> S]
GarbageBytes == [tag |-> "garbage", structs |-> {}]

\* Y.encodeStateAsUpdate: integrated and pending structs alike.
encodeStateAsUpdate(doc) == UpdateBytes(doc)

\* Uint8Array.length of an encoding: the empty document encodes to two bytes.
ByteLength(bytes) == 2 + Cardinality(bytes.structs)

\* A Y.applyUpdate that ignores an update once the document has content.
applyUpdateKeepFirst(doc, bytes) ==
    IF bytes.tag = "update"
    THEN [ok |-> TRUE, doc |-> IF doc = {} THEN bytes.structs ELSE doc]
    ELSE [ok |-> FALSE, doc |-> doc]

\* A Y.applyUpdate that replaces the document by the structs of the update.
applyUpdateReplace(doc, bytes) ==
    IF bytes.tag = "update"
    THEN [ok |-> TRUE, doc |-> bytes.structs]
    ELSE [ok |-> FALSE, doc |-> doc]

\* Y.applyUpdate: throws on bytes that do not decode.
applyUpdate(doc, bytes) ==
    IF bytes.tag = "update"
    THEN [ok |-> TRUE, doc |-> doc \cup bytes.structs]
    ELSE [ok |-> FALSE, doc |-> doc]

\* The bytes of the 'update' event a transaction emits: the structs it
\* integrated.
EventBytes(before, after) == UpdateBytes(Integrated(after) \ Integrated(before))

\* ------------------------------------------------------- stored records
\* The stateVector field of a record, by its runtime type.
Unset == [type |-> "Unset", tag |-> "none", structs |-> {}]
BinaryOf(bytes) == [type |-> "Binary", tag |-> bytes.tag, structs |-> bytes.structs]
StringValue == [type |-> "String", tag |-> "none", structs |-> {}]
LengthFnValue == [type |-> "LengthFn", tag |-> "none", structs |-> {}]

NoRecord == [exists |-> FALSE, sv |-> Unset, updatedAt |-> 0]
Record(sv, t) == [exists |-> TRUE, sv |-> sv, updatedAt |-> t]

\* What findOne has not returned yet.
NotRead == [exists |-> FALSE, sv |-> [type |-> "NotRead", tag |-> "none", structs |-> {}],
            updatedAt |-> 0]

\* docState.stateVector is truthy.
Truthy(sv) == sv.type \notin {"Unset", "NotRead"}

\* typeof stateVector.length === 'function': the driver's Binary has a length()
\* method, as has the object that is taken for corrupted.
HasLengthFunction(sv) == sv.type \in {"Binary", "LengthFn"}

\* getYDoc, lines 476-485: a truthy field with a length function whose
\* constructor is not Binary.
IsCorrupted(sv) == Truthy(sv) /\ HasLengthFunction(sv) /\ sv.type # "Binary"

\* A conversion that accepts a Buffer only, not the Binary the driver returns.
ToUint8ArrayBufferOnly(sv) ==
    IF sv.type = "Buffer"
    THEN [has |-> TRUE, bytes |-> [tag |-> sv.tag, structs |-> sv.structs]]
    ELSE [has |-> FALSE, bytes |-> UpdateBytes({})]

\* The conversion of a stored field to a Uint8Array with length > 0.
\* has: the bytes are usable; bytes: what is handed to Y.applyUpdate.
ToUint8Array(sv) ==
    IF sv.type \in {"Buffer", "Binary"}
    THEN [has |-> TRUE, bytes |-> [tag |-> sv.tag, structs |-> sv.structs]]
    ELSE [has |-> FALSE, bytes |-> UpdateBytes({})]

\* --------------------------------------------------------- TextExtractor
RECURSIVE TextFrom(_, _)
TextFrom(I, k) ==
    IF k >= MaxClock THEN <<>>
    ELSE (IF <<"A", k>> \in I THEN <<OpChar(<<"A", k>>)>> ELSE <<>>) \o TextFrom(I, k + 1)

\* ydoc.getText('content').toString(): the characters of the integrated text.
ContentText(doc) == TextFrom({o \in Integrated(doc) : OpKind(o) = "text"}, 0)

RootMap(doc) == {o \in Integrated(doc) : OpKind(o) = "rootAttr"}
RootStart(doc) == {o \in Integrated(doc) : OpKind(o) = "rootChild"}

\* The exploration of ydoc.get('root') as an AbstractType: its _map values are
\* Items whose content is no string and whose toString() is '[object Object]',
\* _item is null and _start is an Item, no Y.Text: nothing is returned.
RootBranchText(doc) == <<>>

\* The fallback over ydoc.share: the text containers are empty here; for the
\* AbstractType 'root' with a non-empty _map, _start.toString() is appended
\* when _start exists.
FallbackText(doc) ==
    IF RootMap(doc) # {} /\ RootStart(doc) # {} THEN <<"[object Object]">> ELSE <<>>

\* The text of a container that holds at most the first struct of client c.
SingleText(doc, c) == IF <<c, 0>> \in Integrated(doc) THEN <<OpChar(<<c, 0>>)>> ELSE <<>>

\* ydoc.getText('lexical').toString() and ydoc.getText('editor').toString().
LexicalText(doc) == SingleText(doc, "L")
EditorText(doc) == SingleText(doc, "E")

\* The steps of the extractor that may raise an error: ydoc.getText (a name
\* defined with another constructor), the exploration of 'root' (lines
\* 54-150), the exploration of an AbstractType in the fallback (lines 204-272)
\* and the rest of the fallback loop (lines 173-198).
Faults == {"none", "getText", "root", "fallbackInner", "fallbackOuter"}

\* An extractor without its outer try/catch.
ExtractOutcomeUncaught(doc, fault) ==
    IF fault \in {"getText", "fallbackOuter"} THEN [threw |-> TRUE, text |-> <<>>]
    ELSE [threw |-> FALSE, text |-> <<>>]

\* extractTextFromYDoc, lines 11-286, when the step named by fault raises an
\* error: the inner catch blocks (151, 273) let the function go on, the outer
\* one (282) returns ''.
ExtractOutcome(doc, fault) ==
    IF fault = "getText" THEN [threw |-> FALSE, text |-> <<>>]
    ELSE IF Len(ContentText(doc)) > 0 THEN [threw |-> FALSE, text |-> ContentText(doc)]
    ELSE IF Len(LexicalText(doc)) > 0 THEN [threw |-> FALSE, text |-> LexicalText(doc)]
    ELSE IF fault # "root" /\ Len(RootBranchText(doc)) > 0
         THEN [threw |-> FALSE, text |-> RootBranchText(doc)]
    ELSE IF Len(EditorText(doc)) > 0 THEN [threw |-> FALSE, text |-> EditorText(doc)]
    ELSE IF fault = "fallbackOuter" THEN [threw |-> FALSE, text |-> <<>>]
    ELSE IF fault = "fallbackInner" THEN [threw |-> FALSE, text |-> <<>>]
    ELSE [threw |-> FALSE, text |-> FallbackText(doc)]

extractTextFromYDoc(doc) == ExtractOutcome(doc, "none").text

\* The structs a stored record decodes to; none when there is no usable
\* snapshot.
SnapshotStructs(r) ==
    IF r.exists /\ r.sv.type = "Binary" /\ r.sv.tag = "update" THEN r.sv.structs ELSE {}

\* ----------------------------------------------------------------- state
VARIABLES
    store,        \* the collection: one record per document id
    now,          \* the value of new Date(), a logical clock
    isConnected,  \* CustomMongoPersistence.isConnected
    listPc,       \* the listAllDocuments() call made at startup
    ydoc,         \* the registry of live documents (docs map of the websocket utils)
    conns,        \* the number of sessions attached to each document
    incar,        \* how many times each document id has been opened
    issued,       \* the structs each client has produced so far
    bind,         \* the closure of bindState for the live document
    loads,        \* the getYDoc calls in flight
    stores,       \* the storeUpdate calls in flight, in the order they were made
    writes,       \* the writeState calls in flight
    mergeLog,     \* history: the last merge step of bindState
    closeLog,     \* history: the last writeState callback
    lastWrite,    \* history: the last write to each record
    sig,          \* the shutdown handler: up, closingStore, serverClosed, exited
    hist,         \* history: the record found at startup, the failures of store calls
    gate,         \* the browser: the sync flags, the providers and the editor
    net           \* the sessions of a document and the deltas sent to each

vars == <<store, now, isConnected, listPc, ydoc, conns, incar, issued, bind,
          loads, stores, writes, mergeLog, closeLog, lastWrite, sig, hist, gate, net>>

NoBind == [pc |-> "none", listening |-> FALSE, isInitialLoad |-> FALSE,
           hasAppliedPersistedState |-> FALSE, skipped |-> FALSE]

\* The history of a document id: prior is the record found at startup; err is
\* "caught" once a store call for the id ended in its catch block and "escaped"
\* once one rejected; lost holds the structs of the storeUpdate calls that
\* failed since the last successful write, owed those that had failed before
\* it; atRelease tells whether the live document was in the store when the
\* shutdown handler released the connection.
NoClose == [seen |-> FALSE, doc |-> {}, wrote |-> FALSE, before |-> NoRecord,
            fault |-> "none", threw |-> FALSE, text |-> <<>>]

\* The browser before the application is rendered, and a server without
\* attached sessions.
GateDocs == {"doc1", "doc2"}

\* registry is window.__provider_<id> (0: not set); returned is the Y.Doc
\* passed to the last createWebsocketProvider call and the provider it gave.
NoGate == [synced |-> "undefined", connected |-> "undefined", editable |-> TRUE,
           lastEditable |-> "null", mounted |-> FALSE, providers |-> <<>>,
           registry |-> [id \in GateDocs |-> 0],
           returned |-> [doc |-> 0, provider |-> 0]]
NoNet == [attached |-> {}, applied |-> <<>>, inbox |-> [c \in Clients |-> <<>>]]

NoHist(r) == [prior |-> r, err |-> "none", lost |-> {}, owed |-> {}, atRelease |-> "none"]

\* Snapshots earlier runs of the server may have left in the collection.
InitialSnapshots == {S \in SUBSET Op : Integrated(S) = S /\ Cardinality(S) <= 1}

InitialRecords ==
    {NoRecord, Record(Unset, 0), Record(StringValue, 0), Record(LengthFnValue, 0),
     Record(BinaryOf(GarbageBytes), 0)}
    \cup {Record(BinaryOf(UpdateBytes(S)), 0) : S \in InitialSnapshots}

Init ==
    /\ store \in [Docs -> InitialRecords]
    /\ now = 1
    /\ isConnected = FALSE
    /\ listPc = "connect"
    /\ ydoc = [d \in Docs |-> [live |-> FALSE, doc |-> NewDoc]]
    /\ conns = [d \in Docs |-> 0]
    /\ incar = [d \in Docs |-> 0]
    /\ issued = [d \in Docs |-> [c \in Clients |->
                    Cardinality({o \in store[d].sv.structs : o[1] = c})]]
    /\ bind = [d \in Docs |-> NoBind]
    /\ loads = {}
    /\ stores = <<>>
    /\ writes = {}
    /\ mergeLog = [d \in Docs |-> [seen |-> FALSE, pre |-> {}, persisted |-> {}, post |-> {}]]
    /\ closeLog = [d \in Docs |-> NoClose]
    /\ lastWrite = [d \in Docs |-> [by |-> "none", prev |-> NoRecord, read |-> NoRecord,
                                    upd |-> UpdateBytes({})]]
    /\ sig = "up"
    /\ hist = [d \in Docs |-> NoHist(store[d])]
    /\ gate = NoGate
    /\ net = NoNet

\* The process has not exited.
Up == sig # "exited"

RemoveAt(s, i) == SubSeq(s, 1, i - 1) \o SubSeq(s, i + 1, Len(s))

\* A store call ended in its catch block (console.error).
Caught(h) == [h EXCEPT !.err = IF @ = "escaped" THEN @ ELSE "caught"]

\* A store call rejected: the error of connect() left it uncaught.
Escaped(h) == [h EXCEPT !.err = "escaped"]

\* A storeUpdate call failed: its update was not written.
Lost(h, update) == [h EXCEPT !.lost = @ \cup update.structs]

\* An updateOne of storeUpdate or writeState succeeded.
Written(h) == [h EXCEPT !.owed = h.lost, !.lost = {}]

\* ------------------------------------------------ CustomMongoPersistence
\* new ObjectId(docName), the _id every store operation filters by: the hex
\* digits of the name are read without regard to case, so names that differ
\* only in the case of their letters give the same ObjectId.
ObjectId(docName) == IF docName = "AB01" THEN "ab01" ELSE docName

\* new ObjectId(docName) throws for a name that is not 24 hex digits.
Convertible(docName) == docName # "nothex"

\* connect(): the check of isConnected made when a store operation is called.
Entry(next) == IF isConnected THEN next ELSE "connect"

\* listAllDocuments(), called once at startup: connect, then a read that changes
\* nothing; a failure of either is caught.
ListAllDocuments ==
    /\ Up
    /\ listPc = "connect"
    /\ listPc' = "done"
    /\ \E ok \in BOOLEAN : isConnected' = (isConnected \/ ok)
    /\ UNCHANGED <<gate, net, sig, hist, store, now, ydoc, conns, incar, issued, bind, loads, stores, writes,
                   mergeLog, closeLog, lastWrite>>

\* A getYDoc that lets the apply error escape.
DecodeStoredUncaught(bytes) ==
    LET res == applyUpdate(NewDoc, bytes)
    IN  IF res.ok THEN [pc |-> "resolved", result |-> res.doc]
        ELSE [pc |-> "rejected", result |-> NewDoc]

\* getYDoc, lines 513-529: the stored bytes applied to a new Y.Doc; an apply
\* error is caught and a new document returned.
DecodeStored(bytes) ==
    LET res == applyUpdate(NewDoc, bytes)
    IN  IF res.ok THEN [pc |-> "resolved", result |-> res.doc]
        ELSE [pc |-> "resolved", result |-> NewDoc]

\* getYDoc after findOne returned r: the next position of the call and the
\* document it returns.
GetYDocFound(r) ==
    IF ~r.exists THEN [pc |-> "resolved", result |-> NewDoc]
    ELSE IF IsCorrupted(r.sv) THEN [pc |-> "fixFind", result |-> NewDoc]
    ELSE IF Truthy(r.sv) /\ ToUint8Array(r.sv).has
              /\ ByteLength(ToUint8Array(r.sv).bytes) > 0
         THEN DecodeStored(ToUint8Array(r.sv).bytes)
         ELSE [pc |-> "resolved", result |-> NewDoc]

\* fixCorruptedDocument after its findOne returned r: whether it goes on to
\* unset the field.
FixWillUnset(r) ==
    r.exists /\ Truthy(r.sv) /\ HasLengthFunction(r.sv) /\ r.sv.type # "Binary"

\* The getYDoc call was made by the bindState of the document now in the registry.
IsCurrent(l) == ydoc[l.doc].live /\ l.inc = incar[l.doc]

\* A getYDoc that ends for a document already evicted leaves nothing behind:
\* bindState goes on with a document nobody holds.
Settle(l) == IF l.pc \in {"resolved", "rejected"} /\ ~IsCurrent(l) THEN {} ELSE {l}

NewLoad(d, n) == [doc |-> d, inc |-> n, pc |-> Entry("find"), found |-> NotRead, result |-> NewDoc]

\* getYDoc: await this.connect(), outside the try block.
LoadConnect(l) ==
    /\ Up
    /\ l.pc = "connect"
    /\ \E ok \in BOOLEAN :
        /\ isConnected' = (isConnected \/ ok)
        /\ loads' = (loads \ {l}) \cup Settle([l EXCEPT !.pc = IF ok THEN "find" ELSE "rejected"])
    /\ UNCHANGED <<gate, net, sig, hist, store, now, listPc, ydoc, conns, incar, issued, bind, stores, writes,
                   mergeLog, closeLog, lastWrite>>

\* getYDoc: findOne and what follows it up to the next await or the return.
LoadFind(l) ==
    /\ Up
    /\ l.pc = "find"
    /\ \E ok \in BOOLEAN :
        IF ok /\ Convertible(l.doc)
        THEN LET r == store[ObjectId(l.doc)]
                 out == GetYDocFound(r)
             IN  loads' = (loads \ {l}) \cup
                    Settle([l EXCEPT !.pc = out.pc, !.found = r, !.result = out.result])
        ELSE loads' = (loads \ {l}) \cup Settle([l EXCEPT !.pc = "resolved", !.result = NewDoc])
    /\ UNCHANGED <<gate, net, sig, hist, store, now, isConnected, listPc, ydoc, conns, incar, issued, bind,
                   stores, writes, mergeLog, closeLog, lastWrite>>

\* fixCorruptedDocument: its own findOne.
LoadFixFind(l) ==
    /\ Up
    /\ l.pc = "fixFind"
    /\ \E ok \in BOOLEAN :
        loads' = (loads \ {l}) \cup
            Settle([l EXCEPT !.pc = IF ok /\ FixWillUnset(store[ObjectId(l.doc)]) THEN "fixWrite"
                                    ELSE "resolved"])
    /\ UNCHANGED <<gate, net, sig, hist, store, now, isConnected, listPc, ydoc, conns, incar, issued, bind,
                   stores, writes, mergeLog, closeLog, lastWrite>>

\* fixCorruptedDocument: updateOne with $unset stateVector, $set updatedAt.
LoadFixWrite(l) ==
    /\ Up
    /\ l.pc = "fixWrite"
    /\ \E ok \in BOOLEAN :
        IF ok /\ store[ObjectId(l.doc)].exists
        THEN /\ store' = [store EXCEPT ![ObjectId(l.doc)] = Record(Unset, now)]
             /\ now' = now + 1
             /\ lastWrite' = [lastWrite EXCEPT ![l.doc] =
                    [by |-> "fix", prev |-> store[ObjectId(l.doc)], read |-> l.found,
                     upd |-> UpdateBytes({})]]
        ELSE UNCHANGED <<store, now, lastWrite>>
    /\ loads' = (loads \ {l}) \cup Settle([l EXCEPT !.pc = "resolved"])
    /\ UNCHANGED <<gate, net, sig, hist, isConnected, listPc, ydoc, conns, incar, issued, bind, stores, writes,
                   mergeLog, closeLog>>

\* A storeUpdate that writes the update alone, without the existing state.
StoreUpdateNoMerge(r, update) ==
    LET next == applyUpdate(NewDoc, update)
    IN  [ok |-> next.ok, bytes |-> encodeStateAsUpdate(next.doc)]

\* A storeUpdate that sets an existing state it cannot decode aside and
\* stores the update alone.
StoreUpdateSkipUndecodable(r, update) ==
    LET usable == r.exists /\ Truthy(r.sv) /\ ToUint8Array(r.sv).has
                    /\ ByteLength(ToUint8Array(r.sv).bytes) > 0
        base == IF usable THEN applyUpdate(NewDoc, ToUint8Array(r.sv).bytes)
                ELSE [ok |-> TRUE, doc |-> NewDoc]
        next == applyUpdate(IF base.ok THEN base.doc ELSE NewDoc, update)
    IN  [ok |-> next.ok, bytes |-> encodeStateAsUpdate(next.doc)]

\* storeUpdate, lines 547-584: the existing state and the update applied to a
\* temporary document, and its encoding.  ok is FALSE when an apply throws.
StoreUpdateMerge(r, update) ==
    LET usable == r.exists /\ Truthy(r.sv) /\ ToUint8Array(r.sv).has
                    /\ ByteLength(ToUint8Array(r.sv).bytes) > 0
        base == IF usable THEN applyUpdate(NewDoc, ToUint8Array(r.sv).bytes)
                ELSE [ok |-> TRUE, doc |-> NewDoc]
        next == applyUpdate(base.doc, update)
    IN  [ok |-> base.ok /\ next.ok, bytes |-> encodeStateAsUpdate(next.doc)]

NewStore(d, update) == [doc |-> d, update |-> update, pc |-> Entry("find"), existing |-> NotRead]

\* storeUpdate: await this.connect(), outside the try block.
StoreConnect(i) ==
    /\ Up
    /\ i \in DOMAIN stores
    /\ stores[i].pc = "connect"
    /\ \E ok \in BOOLEAN :
        /\ isConnected' = (isConnected \/ ok)
        /\ stores' = IF ok THEN [stores EXCEPT ![i].pc = "find"] ELSE RemoveAt(stores, i)
        /\ hist' = IF ok THEN hist
                   ELSE [hist EXCEPT ![stores[i].doc] = Escaped(Lost(@, stores[i].update))]
    /\ UNCHANGED <<gate, net, sig, store, now, listPc, ydoc, conns, incar, issued, bind, loads, writes,
                   mergeLog, closeLog, lastWrite>>

\* storeUpdate: findOne, then the merge into the temporary document.
StoreFind(i) ==
    /\ Up
    /\ i \in DOMAIN stores
    /\ stores[i].pc = "find"
    /\ \E ok \in BOOLEAN :
        IF ok /\ Convertible(stores[i].doc)
                /\ StoreUpdateMerge(store[ObjectId(stores[i].doc)], stores[i].update).ok
            THEN /\ stores' = [stores EXCEPT ![i].pc = "write",
                                             ![i].existing = store[ObjectId(stores[i].doc)]]
                 /\ hist' = hist
            ELSE /\ stores' = RemoveAt(stores, i)
                 /\ hist' = [hist EXCEPT ![stores[i].doc] = Caught(Lost(@, stores[i].update))]
    /\ UNCHANGED <<gate, net, sig, store, now, isConnected, listPc, ydoc, conns, incar, issued, bind,
                   loads, writes, mergeLog, closeLog, lastWrite>>

\* storeUpdate: updateOne with upsert, $set stateVector and updatedAt.
StoreWrite(i) ==
    /\ Up
    /\ i \in DOMAIN stores
    /\ stores[i].pc = "write"
    /\ \E ok \in BOOLEAN :
        LET c == stores[i]
            merged == StoreUpdateMerge(c.existing, c.update).bytes
        IN  IF ok
            THEN /\ store' = [store EXCEPT ![ObjectId(c.doc)] = Record(BinaryOf(merged), now)]
                 /\ now' = now + 1
                 /\ lastWrite' = [lastWrite EXCEPT ![c.doc] =
                        [by |-> "storeUpdate", prev |-> store[ObjectId(c.doc)], read |-> c.existing,
                         upd |-> c.update]]
                 /\ hist' = [hist EXCEPT ![c.doc] = Written(@)]
            ELSE /\ UNCHANGED <<store, now, lastWrite>>
                 /\ hist' = [hist EXCEPT ![c.doc] = Caught(Lost(@, c.update))]
    /\ stores' = RemoveAt(stores, i)
    /\ UNCHANGED <<gate, net, sig, isConnected, listPc, ydoc, conns, incar, issued, bind, loads, writes,
                   mergeLog, closeLog>>

\* CustomMongoPersistence.writeState, line 613: only save if the state vector
\* has content.
WriteStateSaves(bytes) == ByteLength(bytes) > 0

\* writeState: await this.connect(), outside the try block.
WriteConnect(w) ==
    /\ Up
    /\ w.pc = "connect"
    /\ \E ok \in BOOLEAN :
        /\ isConnected' = (isConnected \/ ok)
        /\ writes' = (writes \ {w}) \cup (IF ok THEN {[w EXCEPT !.pc = "write"]} ELSE {})
        /\ hist' = IF ok THEN hist ELSE [hist EXCEPT ![w.doc] = Escaped(@)]
    /\ UNCHANGED <<gate, net, sig, store, now, listPc, ydoc, conns, incar, issued, bind, loads, stores,
                   mergeLog, closeLog, lastWrite>>

\* writeState: updateOne with upsert of the full state.
WriteWrite(w) ==
    /\ Up
    /\ w.pc = "write"
    /\ \E ok \in BOOLEAN :
        IF ok /\ WriteStateSaves(w.bytes) /\ Convertible(w.doc)
        THEN /\ store' = [store EXCEPT ![ObjectId(w.doc)] = Record(BinaryOf(w.bytes), now)]
             /\ now' = now + 1
             /\ lastWrite' = [lastWrite EXCEPT ![w.doc] =
                    [by |-> "writeState", prev |-> store[ObjectId(w.doc)], read |-> NoRecord,
                     upd |-> w.bytes]]
             /\ hist' = [hist EXCEPT ![w.doc] = Written(@)]
        ELSE /\ UNCHANGED <<store, now, lastWrite>>
             /\ hist' = IF ~ok \/ (WriteStateSaves(w.bytes) /\ ~Convertible(w.doc))
                        THEN [hist EXCEPT ![w.doc] = Caught(@)]
                        ELSE hist
    /\ writes' = writes \ {w}
    /\ UNCHANGED <<gate, net, sig, isConnected, listPc, ydoc, conns, incar, issued, bind, loads, stores,
                   mergeLog, closeLog>>

\* ------------------------------------------------- setPersistence callbacks
\* A listener without the isInitialLoad guard.
ListenerStoresUnguarded(b) == b.listening

\* The update listener, lines 346-356: it returns early while isInitialLoad,
\* otherwise it calls storeUpdate with the update.
ListenerStores(b) == b.listening /\ ~b.isInitialLoad

\* A listener that hands the whole document state to storeUpdate.
ListenerPayloadFullState(doc, update) == encodeStateAsUpdate(doc)

\* The update the listener hands to storeUpdate.
ListenerPayload(doc, update) == update

\* The 'update' event of a transaction that took the document from before to
\* after: the store calls and the closure after the listener has run.
StoresAfterEvent(d, before, after) ==
    IF Integrated(after) # Integrated(before) /\ ListenerStores(bind[d])
    THEN Append(stores, NewStore(d, ListenerPayload(after, EventBytes(before, after))))
    ELSE stores

SkippedAfterEvent(b, before, after) ==
    b.skipped \/ (Integrated(after) # Integrated(before) /\ b.listening /\ b.isInitialLoad)

\* bindState, line 359: the persisted state is applied when its extracted text
\* is not empty.
BindStateApplies(persisted) == Len(extractTextFromYDoc(persisted)) > 0

\* bindState, lines 358-365: the live document after the merge step.
BindStateMerge(current, persisted) ==
    IF BindStateApplies(persisted)
    THEN applyUpdate(current, encodeStateAsUpdate(persisted)).doc
    ELSE current

\* bindState after getYDoc resolved, lines 332-376: the listener is registered,
\* the persisted state merged, the guard timer set.
BindResume(l) ==
    /\ Up
    /\ l.pc = "resolved"
    /\ IsCurrent(l)
    /\ LET d == l.doc
           before == ydoc[d].doc
           after == BindStateMerge(before, l.result)
           registered == [bind[d] EXCEPT !.listening = TRUE, !.isInitialLoad = TRUE]
       IN  /\ ydoc' = [ydoc EXCEPT ![d].doc = after]
           /\ bind' = [bind EXCEPT ![d] =
                  [registered EXCEPT !.pc = "guard",
                                     !.hasAppliedPersistedState = BindStateApplies(l.result),
                                     !.skipped = SkippedAfterEvent(registered, before, after)]]
           /\ stores' = IF Integrated(after) # Integrated(before) /\ ListenerStores(registered)
                        THEN Append(stores, NewStore(d, ListenerPayload(after, EventBytes(before, after))))
                        ELSE stores
           /\ mergeLog' = [mergeLog EXCEPT ![d] =
                  [seen |-> TRUE, pre |-> before, persisted |-> l.result, post |-> after]]
    /\ loads' = loads \ {l}
    /\ UNCHANGED <<gate, net, sig, hist, store, now, isConnected, listPc, conns, incar, issued, writes,
                   closeLog, lastWrite>>

\* bindState when getYDoc rejected: the promise of bindState rejects and no
\* listener is ever registered.
BindReject(l) ==
    /\ Up
    /\ l.pc = "rejected"
    /\ IsCurrent(l)
    /\ bind' = [bind EXCEPT ![l.doc].pc = "rejected"]
    /\ loads' = loads \ {l}
    /\ UNCHANGED <<gate, net, sig, hist, store, now, isConnected, listPc, ydoc, conns, incar, issued, stores,
                   writes, mergeLog, closeLog, lastWrite>>

\* The guard timer, lines 373-376.
GuardTimer(d) ==
    /\ Up
    /\ bind[d].pc = "guard"
    /\ bind' = [bind EXCEPT ![d].pc = "active", ![d].isInitialLoad = FALSE]
    /\ UNCHANGED <<gate, net, sig, hist, store, now, isConnected, listPc, ydoc, conns, incar, issued, loads,
                   stores, writes, mergeLog, closeLog, lastWrite>>

\* A writeState callback without the check of the extracted text.
WriteStateCallbackAlways(doc) == TRUE

\* The writeState callback, lines 378-390: nothing is written when the
\* extracted text is empty.
WriteStateCallbackWrites(doc) == Len(extractTextFromYDoc(doc)) # 0

\* ------------------------------------------------------------- sessions
\* A session opens a connection; the first one creates the document and calls
\* bindState without awaiting it.
Connect(d) ==
    /\ Up
    /\ sig \in {"up", "closingStore"}
    /\ conns[d] < MaxConns
    /\ conns' = [conns EXCEPT ![d] = @ + 1]
    /\ IF ydoc[d].live
       THEN UNCHANGED <<ydoc, incar, bind, loads>>
       ELSE /\ incar[d] < MaxOpens
            /\ incar' = [incar EXCEPT ![d] = @ + 1]
            /\ ydoc' = [ydoc EXCEPT ![d] = [live |-> TRUE, doc |-> NewDoc]]
            /\ bind' = [bind EXCEPT ![d] = [NoBind EXCEPT !.pc = "loading"]]
            /\ loads' = loads \cup {NewLoad(d, incar[d] + 1)}
    /\ UNCHANGED <<gate, net, sig, hist, store, now, isConnected, listPc, issued, stores, writes, mergeLog,
                   closeLog, lastWrite>>

\* A session closes; the last one calls the writeState callback and the
\* document leaves the registry.
Disconnect(d) ==
    /\ Up
    /\ conns[d] > 0
    /\ conns' = [conns EXCEPT ![d] = @ - 1]
    /\ IF conns[d] = 1 /\ ydoc[d].live
       THEN LET doc == ydoc[d].doc
                go == WriteStateCallbackWrites(doc)
            IN  /\ writes' = IF go
                             THEN writes \cup {[doc |-> d, bytes |-> encodeStateAsUpdate(doc),
                                                pc |-> Entry("write")]}
                             ELSE writes
                /\ closeLog' = [closeLog EXCEPT ![d] =
                       [seen |-> TRUE, doc |-> doc, wrote |-> go, before |-> store[d],
                        fault |-> "none", threw |-> FALSE, text |-> extractTextFromYDoc(doc)]]
                /\ ydoc' = [ydoc EXCEPT ![d] = [live |-> FALSE, doc |-> NewDoc]]
                /\ bind' = [bind EXCEPT ![d] = NoBind]
                /\ loads' = {l \in loads : ~(l.doc = d /\ l.pc \in {"resolved", "rejected"})}
       ELSE UNCHANGED <<writes, closeLog, ydoc, bind, loads>>
    /\ UNCHANGED <<gate, net, sig, hist, store, now, isConnected, listPc, incar, issued, stores,
                   mergeLog, lastWrite>>

IssuedOps(d, c) == {<<c, k>> : k \in 0 .. issued[d][c] - 1}

\* A message of a session applied to the live document, and its update event.
ApplyMessage(d, structs) ==
    LET before == ydoc[d].doc
        after == applyUpdate(before, UpdateBytes(structs)).doc
    IN  /\ ydoc' = [ydoc EXCEPT ![d].doc = after]
        /\ stores' = StoresAfterEvent(d, before, after)
        /\ bind' = [bind EXCEPT ![d].skipped = SkippedAfterEvent(bind[d], before, after)]

\* The sync handshake: a client sends the structs of its own the server lacks.
ClientSync(d, c) ==
    /\ Up
    /\ ydoc[d].live /\ conns[d] > 0
    /\ IssuedOps(d, c) \ ydoc[d].doc # {}
    /\ ApplyMessage(d, IssuedOps(d, c) \ ydoc[d].doc)
    /\ UNCHANGED <<gate, net, sig, hist, store, now, isConnected, listPc, conns, incar, issued, loads, writes,
                   mergeLog, closeLog, lastWrite>>

\* A local edit of a synced client: one new struct.
ClientEdit(d, c) ==
    /\ Up
    /\ ydoc[d].live /\ conns[d] > 0
    /\ issued[d][c] < ClockBound(c)
    /\ IssuedOps(d, c) \subseteq ydoc[d].doc
    /\ issued' = [issued EXCEPT ![d][c] = @ + 1]
    /\ ApplyMessage(d, {<<c, issued[d][c]>>})
    /\ UNCHANGED <<gate, net, sig, hist, store, now, isConnected, listPc, conns, incar, loads, writes,
                   mergeLog, closeLog, lastWrite>>

\* ------------------------------------------------------------- shutdown
\* SIGINT or SIGTERM, lines 404-420: await mdb.destroy(), which closes the
\* client when it is connected, then server.close().
Signal ==
    /\ sig = "up"
    /\ sig' = IF isConnected THEN "closingStore" ELSE "serverClosed"
    /\ UNCHANGED <<gate, net, hist, store, now, isConnected, listPc, ydoc, conns, incar, issued, bind,
                   loads, stores, writes, mergeLog, closeLog, lastWrite>>

\* disconnect(), lines 455-461: client.close() has returned; the handler goes
\* on to server.close(), after which no new connection is accepted.
StoreClosed ==
    /\ sig = "closingStore"
    /\ isConnected' = FALSE
    /\ sig' = "serverClosed"
    /\ hist' = [d \in Docs |-> [hist[d] EXCEPT !.atRelease =
            IF ydoc[d].live /\ ~(ydoc[d].doc \subseteq SnapshotStructs(store[d]))
            THEN "unflushed" ELSE "flushed"]]
    /\ UNCHANGED <<gate, net, store, now, listPc, ydoc, conns, incar, issued, bind,
                   loads, stores, writes, mergeLog, closeLog, lastWrite>>

\* The callback of server.close(): every connection has ended, process.exit(0).
Exit ==
    /\ sig = "serverClosed"
    /\ \A d \in Docs : conns[d] = 0
    /\ sig' = "exited"
    /\ UNCHANGED <<gate, net, hist, store, now, isConnected, listPc, ydoc, conns, incar, issued, bind,
                   loads, stores, writes, mergeLog, closeLog, lastWrite>>

\* --------------------------------------------------------- specification
Next ==
    \/ ListAllDocuments
    \/ \E l \in loads : LoadConnect(l)
    \/ \E l \in loads : LoadFind(l)
    \/ \E l \in loads : LoadFixFind(l)
    \/ \E l \in loads : LoadFixWrite(l)
    \/ \E l \in loads : BindResume(l)
    \/ \E l \in loads : BindReject(l)
    \/ \E d \in Docs : GuardTimer(d)
    \/ \E i \in DOMAIN stores : StoreConnect(i)
    \/ \E i \in DOMAIN stores : StoreFind(i)
    \/ \E i \in DOMAIN stores : StoreWrite(i)
    \/ \E w \in writes : WriteConnect(w)
    \/ \E w \in writes : WriteWrite(w)
    \/ \E d \in Docs : Connect(d)
    \/ \E d \in Docs : Disconnect(d)
    \/ \E d \in Docs, c \in Clients : ClientSync(d, c)
    \/ \E d \in Docs, c \in Clients : ClientEdit(d, c)
    \/ Signal
    \/ StoreClosed
    \/ Exit

Spec == Init /\ [][Next]_vars

\* ------------------------------------------ the persistence API, called alone
\* A second specification: a caller holds one Y.Doc per id and calls
\* writeState, storeUpdate and getYDoc of CustomMongoPersistence one after the
\* other, each call running to its end before the next is made.
Idle ==
    /\ stores = <<>>
    /\ writes = {}
    /\ \A l \in loads : l.pc \in {"resolved", "rejected"}

InitCalls ==
    /\ store \in [Docs -> InitialRecords]
    /\ now = 1
    /\ isConnected = FALSE
    /\ listPc = "done"
    /\ ydoc \in [Docs -> {[live |-> TRUE, doc |-> D] : D \in (SUBSET Op) \ {NewDoc}}]
    /\ conns = [d \in Docs |-> 1]
    /\ incar = [d \in Docs |-> 1]
    /\ issued = [d \in Docs |-> [c \in Clients |-> ClockBound(c)]]
    /\ bind = [d \in Docs |-> NoBind]
    /\ loads = {}
    /\ stores = <<>>
    /\ writes = {}
    /\ mergeLog = [d \in Docs |-> [seen |-> FALSE, pre |-> {}, persisted |-> {}, post |-> {}]]
    /\ closeLog = [d \in Docs |-> NoClose]
    /\ lastWrite = [d \in Docs |-> [by |-> "none", prev |-> NoRecord, read |-> NoRecord,
                                    upd |-> UpdateBytes({})]]
    /\ sig = "up"
    /\ hist = [d \in Docs |-> NoHist(store[d])]
    /\ gate = NoGate
    /\ net = NoNet

\* mdb.writeState(d, D) with the caller's document; the result of an earlier
\* getYDoc is let go.
CallWriteState(d) ==
    /\ Idle
    /\ now <= MaxWrites
    /\ writes' = {[doc |-> d, bytes |-> encodeStateAsUpdate(ydoc[d].doc), pc |-> Entry("write")]}
    /\ loads' = {}
    /\ UNCHANGED <<gate, net, sig, hist, store, now, isConnected, listPc, ydoc, conns, incar, issued, bind,
                   stores, mergeLog, closeLog, lastWrite>>

\* mdb.storeUpdate(d, u) with an update the caller chose.
CallStoreUpdate(d, S) ==
    /\ Idle
    /\ now <= MaxWrites
    /\ stores' = <<NewStore(d, UpdateBytes(S))>>
    /\ loads' = {}
    /\ UNCHANGED <<gate, net, sig, hist, store, now, isConnected, listPc, ydoc, conns, incar, issued, bind,
                   writes, mergeLog, closeLog, lastWrite>>

\* mdb.getYDoc(d); the result of an earlier call is let go.
CallGetYDoc(d) ==
    /\ Idle
    /\ loads' = {NewLoad(d, incar[d])}
    /\ UNCHANGED <<gate, net, sig, hist, store, now, isConnected, listPc, ydoc, conns, incar, issued, bind,
                   stores, writes, mergeLog, closeLog, lastWrite>>

NextCalls ==
    \/ \E d \in Docs : CallWriteState(d)
    \/ \E d \in Docs, S \in (SUBSET Op) \ {{}} : CallStoreUpdate(d, S)
    \/ \E d \in Docs : CallGetYDoc(d)
    \/ \E l \in loads : LoadConnect(l)
    \/ \E l \in loads : LoadFind(l)
    \/ \E l \in loads : LoadFixFind(l)
    \/ \E l \in loads : LoadFixWrite(l)
    \/ \E i \in DOMAIN stores : StoreConnect(i)
    \/ \E i \in DOMAIN stores : StoreFind(i)
    \/ \E i \in DOMAIN stores : StoreWrite(i)
    \/ \E w \in writes : WriteConnect(w)
    \/ \E w \in writes : WriteWrite(w)

SpecCalls == InitCalls /\ [][NextCalls]_vars

\* -------------------------------------------------- the extractor, called alone
\* A third specification: extractTextFromYDoc applied to a document built from
\* updates over the wider set of structs, with or without a step that raises.
InitExtract ==
    /\ store = [d \in Docs |-> NoRecord]
    /\ now = 1
    /\ isConnected = FALSE
    /\ listPc = "done"
    /\ ydoc \in [Docs -> {[live |-> TRUE, doc |-> D] : D \in SUBSET OpX}]
    /\ conns = [d \in Docs |-> 1]
    /\ incar = [d \in Docs |-> 1]
    /\ issued = [d \in Docs |-> [c \in Clients |-> ClockBound(c)]]
    /\ bind \in [Docs -> {NoBind, [NoBind EXCEPT !.pc = "active", !.listening = TRUE]}]
    /\ loads = {}
    /\ stores = <<>>
    /\ writes = {}
    /\ mergeLog = [d \in Docs |-> [seen |-> FALSE, pre |-> {}, persisted |-> {}, post |-> {}]]
    /\ closeLog = [d \in Docs |-> NoClose]
    /\ lastWrite = [d \in Docs |-> [by |-> "none", prev |-> NoRecord, read |-> NoRecord,
                                    upd |-> UpdateBytes({})]]
    /\ sig = "up"
    /\ hist = [d \in Docs |-> NoHist(store[d])]
    /\ gate = NoGate
    /\ net = NoNet

\* An extraction that inserts into the container it reads.
StructsAfterExtractInserting(doc) == doc \cup {<<"A", Cardinality({o \in doc : o[1] = "A"})>>}

\* The structs of the document after extractTextFromYDoc: ydoc.getText and
\* ydoc.get (lines 34, 41, 48, 165) define the named root types in ydoc.share
\* and add no struct; the rest of the extractor reads.
StructsAfterExtract(doc) == doc

\* textExtractor.extractTextFromYDoc(ydoc), with the step named by f raising;
\* a change of the document would raise the 'update' event.
CallExtract(d, f) ==
    /\ ydoc' = [ydoc EXCEPT ![d].doc = StructsAfterExtract(@)]
    /\ stores' = StoresAfterEvent(d, ydoc[d].doc, StructsAfterExtract(ydoc[d].doc))
    /\ closeLog' = [closeLog EXCEPT ![d] =
            [seen |-> TRUE, doc |-> ydoc[d].doc, wrote |-> FALSE, before |-> store[d],
             fault |-> f, threw |-> ExtractOutcome(ydoc[d].doc, f).threw,
             text |-> ExtractOutcome(ydoc[d].doc, f).text]]
    /\ UNCHANGED <<gate, net, sig, hist, store, now, isConnected, listPc, conns, incar, issued, bind,
                   loads, writes, mergeLog, lastWrite>>

NextExtract == \E d \in Docs, f \in Faults : CallExtract(d, f)

SpecExtract == InitExtract /\ [][NextExtract]_vars

\* ------------------------------------------------- the sessions of a document
\* A fourth specification, after the broadcast rule of the session layer
\* (setupWSConnection of websocket/utils): sessions attach to and detach from
\* the live document of an id; a mutation received from one session is applied
\* to the document and its delta sent to the other attached sessions.
InitSessions ==
    /\ store = [d \in Docs |-> NoRecord]
    /\ now = 1
    /\ isConnected = FALSE
    /\ listPc = "done"
    /\ ydoc = [d \in Docs |-> [live |-> TRUE, doc |-> NewDoc]]
    /\ conns = [d \in Docs |-> 0]
    /\ incar = [d \in Docs |-> 1]
    /\ issued = [d \in Docs |-> [c \in Clients |-> 0]]
    /\ bind = [d \in Docs |-> NoBind]
    /\ loads = {}
    /\ stores = <<>>
    /\ writes = {}
    /\ mergeLog = [d \in Docs |-> [seen |-> FALSE, pre |-> {}, persisted |-> {}, post |-> {}]]
    /\ closeLog = [d \in Docs |-> NoClose]
    /\ lastWrite = [d \in Docs |-> [by |-> "none", prev |-> NoRecord, read |-> NoRecord,
                                    upd |-> UpdateBytes({})]]
    /\ sig = "up"
    /\ hist = [d \in Docs |-> NoHist(store[d])]
    /\ gate = NoGate
    /\ net = NoNet

\* A broadcast that also goes back to the session the mutation came from.
RecipientsAll(attached, origin) == attached

\* The sessions a delta is sent to: every attached session but the origin.
Recipients(attached, origin) == attached \ {origin}

Attach(c) ==
    /\ c \notin net.attached
    /\ net' = [net EXCEPT !.attached = @ \cup {c}]
    /\ UNCHANGED <<gate, sig, hist, store, now, isConnected, listPc, ydoc, conns, incar, issued,
                   bind, loads, stores, writes, mergeLog, closeLog, lastWrite>>

Detach(c) ==
    /\ c \in net.attached
    /\ net' = [net EXCEPT !.attached = @ \ {c}]
    /\ UNCHANGED <<gate, sig, hist, store, now, isConnected, listPc, ydoc, conns, incar, issued,
                   bind, loads, stores, writes, mergeLog, closeLog, lastWrite>>

\* A mutation of an attached session: one new struct of that client.
Mutate(d, c) ==
    /\ c \in net.attached
    /\ issued[d][c] < ClockBound(c)
    /\ LET o == <<c, issued[d][c]>>
           delta == UpdateBytes({o})
           to == Recipients(net.attached, c)
       IN  /\ ydoc' = [ydoc EXCEPT ![d].doc = applyUpdate(@, delta).doc]
           /\ issued' = [issued EXCEPT ![d][c] = @ + 1]
           /\ net' = [net EXCEPT
                  !.applied = Append(@, [from |-> c, delta |-> delta, att |-> net.attached]),
                  !.inbox = [r \in Clients |->
                                IF r \in to THEN Append(net.inbox[r], delta) ELSE net.inbox[r]]]
    /\ UNCHANGED <<gate, sig, hist, store, now, isConnected, listPc, conns, incar,
                   bind, loads, stores, writes, mergeLog, closeLog, lastWrite>>

NextSessions ==
    \/ \E c \in Clients : Attach(c)
    \/ \E c \in Clients : Detach(c)
    \/ \E d \in Docs, c \in Clients : Mutate(d, c)

SpecSessions == InitSessions /\ [][NextSessions]_vars

\* ------------------------------------------------------------ the browser
\* A fifth specification: the editor, the EditingGatePlugin and the providers
\* createWebsocketProvider makes, which share the flags window.__Y_SYNCED__
\* and window.__Y_CONNECTED__.

InitGate ==
    /\ store = [d \in Docs |-> NoRecord]
    /\ now = 1
    /\ isConnected = FALSE
    /\ listPc = "done"
    /\ ydoc = [d \in Docs |-> [live |-> FALSE, doc |-> NewDoc]]
    /\ conns = [d \in Docs |-> 0]
    /\ incar = [d \in Docs |-> 0]
    /\ issued = [d \in Docs |-> [c \in Clients |-> 0]]
    /\ bind = [d \in Docs |-> NoBind]
    /\ loads = {}
    /\ stores = <<>>
    /\ writes = {}
    /\ mergeLog = [d \in Docs |-> [seen |-> FALSE, pre |-> {}, persisted |-> {}, post |-> {}]]
    /\ closeLog = [d \in Docs |-> NoClose]
    /\ lastWrite = [d \in Docs |-> [by |-> "none", prev |-> NoRecord, read |-> NoRecord,
                                    upd |-> UpdateBytes({})]]
    /\ sig = "up"
    /\ hist = [d \in Docs |-> NoHist(store[d])]
    /\ gate = NoGate
    /\ net = NoNet

\* EditingGatePlugin, line 21: ready is __Y_SYNCED__ === true.
GateReady(g) == g.synced = "true"

\* tick(), lines 17-26: setEditable only when ready differs from lastEditable.
TickOf(g) ==
    LET ready == IF GateReady(g) THEN "true" ELSE "false"
    IN  IF g.lastEditable # ready
        THEN [g EXCEPT !.lastEditable = ready, !.editable = (ready = "true")]
        ELSE g

\* The effect of EditingGatePlugin runs: the interval is set and tick() is run
\* at once.
GateMount ==
    /\ ~gate.mounted
    /\ gate' = TickOf([gate EXCEPT !.mounted = TRUE])
    /\ UNCHANGED <<net, sig, hist, store, now, isConnected, listPc, ydoc, conns, incar, issued,
                   bind, loads, stores, writes, mergeLog, closeLog, lastWrite>>

\* The interval fires, every 150 ms.
GateTick ==
    /\ gate.mounted
    /\ gate' = TickOf(gate)
    /\ UNCHANGED <<net, sig, hist, store, now, isConnected, listPc, ydoc, conns, incar, issued,
                   bind, loads, stores, writes, mergeLog, closeLog, lastWrite>>

\* The variables of the server, which the browser leaves alone.
serverVars == <<net, sig, hist, store, now, isConnected, listPc, ydoc, conns, incar, issued,
                bind, loads, stores, writes, mergeLog, closeLog, lastWrite>>

\* The Y.Doc instances a caller passes.
GateYDocs == 1 .. MaxProviders

\* new WebsocketProvider(wsBase, id, doc, {connect: false, ...}), lines 36-53,
\* and the variables of the closure, lines 62-66: the socket does not exist
\* yet, the connect timer is set.  listener says whether the 'close' listener
\* of lines 108-134 was added: it is added to provider.ws if there is one.
NewProvider(id, doc) ==
    [id |-> id, doc |-> doc, ws |-> "none", synced |-> FALSE, shouldConnect |-> FALSE,
     timer |-> TRUE, destroyed |-> FALSE, listener |-> FALSE,
     hasShownAuthError |-> FALSE, consecutiveAuthFailures |-> 0, closes |-> 0,
     isInitialSync |-> TRUE, syncTimer |-> FALSE, override |-> FALSE, sentGuarded |-> FALSE]

\* provider.disconnect(): no reconnection, the socket closed.
Disconnected(p) ==
    [p EXCEPT !.shouldConnect = FALSE, !.ws = "none", !.synced = FALSE, !.override = FALSE]

\* The provider in window.__provider_<id> has an open socket, lines 22-29.
Reusable(g, id) ==
    g.registry[id] # 0 /\ g.providers[g.registry[id]].ws = "open"

\* createWebsocketProvider(id, doc), lines 6-60 and 285: a registered provider
\* with an open socket is returned as it is; otherwise a registered one is
\* disconnected, a new provider is made and registered, and both flags are
\* set to false.
CreateProvider(id, doc) ==
    /\ Reusable(gate, id) \/ Len(gate.providers) < MaxProviders
    /\ gate' =
        IF Reusable(gate, id)
        THEN [gate EXCEPT !.returned = [doc |-> doc, provider |-> gate.registry[id]]]
        ELSE LET old == gate.registry[id]
                 kept == IF old # 0
                         THEN [gate.providers EXCEPT ![old] = Disconnected(@)]
                         ELSE gate.providers
             IN  [gate EXCEPT
                    !.providers = Append(kept, NewProvider(id, doc)),
                    !.registry[id] = Len(gate.providers) + 1,
                    !.connected = "false", !.synced = "false",
                    !.returned = [doc |-> doc, provider |-> Len(gate.providers) + 1]]
    /\ UNCHANGED serverVars

\* The timer of lines 49-53 fires: provider.connect(), which sets
\* shouldConnect and opens a socket when there is none.
ConnectTimer(k) ==
    /\ k \in DOMAIN gate.providers
    /\ gate.providers[k].timer
    /\ gate' = [gate EXCEPT !.providers[k].timer = FALSE,
                            !.providers[k].shouldConnect = TRUE,
                            !.providers[k].ws = IF @ = "none" THEN "connecting" ELSE @]
    /\ UNCHANGED serverVars

\* The socket opens: the 'status' event with connected, lines 68-91, which
\* also resets the count of authentication failures.
ProviderOpen(k) ==
    /\ k \in DOMAIN gate.providers
    /\ gate.providers[k].ws = "connecting"
    /\ gate' = [gate EXCEPT !.providers[k].ws = "open", !.connected = "true",
                            !.providers[k].hasShownAuthError = FALSE,
                            !.providers[k].consecutiveAuthFailures = 0,
                            !.providers[k].closes = 0]
    /\ UNCHANGED serverVars

\* The sync handshake of a provider ends: the 'sync' event with true, lines
\* 93-105, which sets the two-second timer that ends the initial sync.
ProviderSynced(k) ==
    /\ k \in DOMAIN gate.providers
    /\ gate.providers[k].ws = "open" /\ ~gate.providers[k].synced
    /\ gate' = [gate EXCEPT !.providers[k].synced = TRUE, !.synced = "true",
                            !.providers[k].syncTimer = TRUE]
    /\ UNCHANGED serverVars

\* The open socket of a provider closes: 'status' with disconnected, 'sync'
\* with false when the provider was synced, and a new socket is opened when
\* the provider should connect.
ProviderClosed(k) ==
    /\ k \in DOMAIN gate.providers
    /\ gate.providers[k].ws = "open"
    /\ gate' = [gate EXCEPT
            !.providers[k].ws = IF gate.providers[k].shouldConnect THEN "connecting" ELSE "none",
            !.providers[k].synced = FALSE,
            !.providers[k].override = FALSE,
            !.connected = "false",
            !.synced = IF gate.providers[k].synced THEN "false" ELSE @]
    /\ UNCHANGED serverVars

\* provider.disconnect(), called by the application: the events of a closing
\* socket when it was open.
ProviderDisconnect(k) ==
    /\ k \in DOMAIN gate.providers
    /\ gate.providers[k].shouldConnect
    /\ gate' = [gate EXCEPT
            !.providers[k] = Disconnected(@),
            !.connected = IF gate.providers[k].ws = "open" THEN "false" ELSE @,
            !.synced = IF gate.providers[k].synced THEN "false" ELSE @]
    /\ UNCHANGED serverVars

\* provider.connect(), called by the application for a provider that is not
\* connecting: shouldConnect is set and a socket opened when there is none.
ProviderConnect(k) ==
    /\ k \in DOMAIN gate.providers
    /\ ~gate.providers[k].shouldConnect
    /\ gate' = [gate EXCEPT !.providers[k].shouldConnect = TRUE,
                            !.providers[k].ws = IF @ = "none" THEN "connecting" ELSE @]
    /\ UNCHANGED serverVars

\* provider.destroy(), lines 273-281: the registry entry of the id is deleted,
\* whichever provider it names, then the provider is destroyed (disconnected,
\* its observers removed).
DestroyProvider(k) ==
    /\ k \in DOMAIN gate.providers
    /\ ~gate.providers[k].destroyed
    /\ gate' = [gate EXCEPT
            !.registry[gate.providers[k].id] = 0,
            !.providers[k] = [Disconnected(@) EXCEPT !.destroyed = TRUE]]
    /\ UNCHANGED serverVars

NextGate ==
    \/ GateMount
    \/ GateTick
    \/ \E id \in GateDocs, doc \in GateYDocs : CreateProvider(id, doc)
    \/ \E k \in 1 .. MaxProviders : ConnectTimer(k)
    \/ \E k \in 1 .. MaxProviders : ProviderOpen(k)
    \/ \E k \in 1 .. MaxProviders : ProviderSynced(k)
    \/ \E k \in 1 .. MaxProviders : ProviderClosed(k)
    \/ \E k \in 1 .. MaxProviders : ProviderDisconnect(k)
    \/ \E k \in 1 .. MaxProviders : ProviderConnect(k)
    \/ \E k \in 1 .. MaxProviders : DestroyProvider(k)

SpecGate == InitGate /\ [][NextGate]_vars

\* ------------------------------------------------------------ one provider
\* A specification of one provider after createWebsocketProvider('doc1', doc)
\* returned it: its socket, the authentication failures of lines 107-134 and
\* the updates the local editor makes.

\* The number of authentication failures at which the handler gives up.
AuthFailureLimit == 3

InitProvider ==
    /\ store = [d \in Docs |-> NoRecord]
    /\ now = 1
    /\ isConnected = FALSE
    /\ listPc = "done"
    /\ ydoc = [d \in Docs |-> [live |-> FALSE, doc |-> NewDoc]]
    /\ conns = [d \in Docs |-> 0]
    /\ incar = [d \in Docs |-> 0]
    /\ issued = [d \in Docs |-> [c \in Clients |-> 0]]
    /\ bind = [d \in Docs |-> NoBind]
    /\ loads = {}
    /\ stores = <<>>
    /\ writes = {}
    /\ mergeLog = [d \in Docs |-> [seen |-> FALSE, pre |-> {}, persisted |-> {}, post |-> {}]]
    /\ closeLog = [d \in Docs |-> NoClose]
    /\ lastWrite = [d \in Docs |-> [by |-> "none", prev |-> NoRecord, read |-> NoRecord,
                                    upd |-> UpdateBytes({})]]
    /\ sig = "up"
    /\ hist = [d \in Docs |-> NoHist(store[d])]
    /\ gate = [NoGate EXCEPT !.providers = <<NewProvider("doc1", 1)>>,
                             !.registry["doc1"] = 1,
                             !.connected = "false", !.synced = "false",
                             !.returned = [doc |-> 1, provider |-> 1]]
    /\ net = NoNet

\* The 'close' listener, lines 108-134, run for a close with code 1008: the
\* failure is counted while hasShownAuthError is false, and at the limit the
\* provider is told not to connect again.
AuthCloseHandler(p) ==
    IF p.listener /\ ~p.hasShownAuthError
    THEN LET counted == [p EXCEPT !.hasShownAuthError = TRUE,
                                  !.consecutiveAuthFailures = @ + 1]
         IN  IF counted.consecutiveAuthFailures >= AuthFailureLimit
             THEN Disconnected(counted)
             ELSE counted
    ELSE p

\* The server closes the socket the provider is opening with code 1008; the
\* provider opens another when it should connect.  closes counts the closes
\* of this kind since the last successful connection.
AuthClosed(k) ==
    /\ k \in DOMAIN gate.providers
    /\ gate.providers[k].ws = "connecting"
    /\ LET p == gate.providers[k]
           after == AuthCloseHandler(
                        [p EXCEPT !.closes = IF @ < AuthFailureLimit THEN @ + 1 ELSE @])
       IN  gate' = [gate EXCEPT !.providers[k] =
                        [after EXCEPT !.ws = IF after.shouldConnect THEN "connecting" ELSE "none"]]
    /\ UNCHANGED serverVars

\* The timer of lines 100-103 fires, two seconds after sync.
SyncTimer(k) ==
    /\ k \in DOMAIN gate.providers
    /\ gate.providers[k].syncTimer
    /\ gate' = [gate EXCEPT !.providers[k].syncTimer = FALSE,
                            !.providers[k].isInitialSync = FALSE]
    /\ UNCHANGED serverVars

\* setupWebSocketOverride(), lines 199-260, run by one of its timers (262-271)
\* while the socket is open.
InstallOverride(k) ==
    /\ k \in DOMAIN gate.providers
    /\ gate.providers[k].ws = "open" /\ ~gate.providers[k].override
    /\ gate' = [gate EXCEPT !.providers[k].override = TRUE]
    /\ UNCHANGED serverVars

\* The send the override installs, lines 205-255: whether it hands the data
\* to the original send.  During the initial sync with an empty editor it
\* returns originalSend.call(this, data) (245), otherwise it logs and does
\* the same (254).
OverrideForwards(isInitialSync, empty) == TRUE

\* The 'update' listener of lines 144-196 for a local update: whether it goes
\* on to its log and to setupWebSocketOverride() (it returns early during the
\* initial sync with an empty editor, 161-165).
ListenerGoesOn(isInitialSync, empty) == ~(isInitialSync /\ empty)

\* The editor changes the Y.Doc while its text is empty or not.  The provider
\* sends the update over its open socket, through the override when one is
\* installed; then the listener of lines 144-196 runs.  sentGuarded records a
\* send made during the initial sync with an empty editor.
LocalUpdate(k, empty) ==
    /\ k \in DOMAIN gate.providers
    /\ LET p == gate.providers[k]
           sent == p.ws = "open" /\ (p.override => OverrideForwards(p.isInitialSync, empty))
       IN  gate' = [gate EXCEPT
                !.providers[k].sentGuarded = @ \/ (sent /\ p.isInitialSync /\ empty),
                !.providers[k].override =
                    @ \/ (ListenerGoesOn(p.isInitialSync, empty) /\ p.ws = "open")]
    /\ UNCHANGED serverVars

NextProvider ==
    \/ \E k \in 1 .. MaxProviders : ConnectTimer(k)
    \/ \E k \in 1 .. MaxProviders : ProviderOpen(k)
    \/ \E k \in 1 .. MaxProviders : ProviderSynced(k)
    \/ \E k \in 1 .. MaxProviders : ProviderClosed(k)
    \/ \E k \in 1 .. MaxProviders : ProviderDisconnect(k)
    \/ \E k \in 1 .. MaxProviders : ProviderConnect(k)
    \/ \E k \in 1 .. MaxProviders : AuthClosed(k)
    \/ \E k \in 1 .. MaxProviders : SyncTimer(k)
    \/ \E k \in 1 .. MaxProviders : InstallOverride(k)
    \/ \E k \in 1 .. MaxProviders, empty \in BOOLEAN : LocalUpdate(k, empty)

SpecProvider == InitProvider /\ [][NextProvider]_vars

\* ------------------------------------------------- several documents
\* A sixth specification: store operations on several documents at once, over
\* an established connection.  Each document has a content of its own, which
\* its sessions' storeUpdate and writeState calls persist.
IsoDocs == {"ab01", "AB01", "cd02"}

IsoContent(d) ==
    IF d = "ab01" THEN {<<"A", 0>>}
    ELSE IF d = "AB01" THEN {<<"B", 0>>}
    ELSE {<<"N", 0>>}

InitIsolation ==
    /\ store = [k \in {ObjectId(d) : d \in IsoDocs} |-> NoRecord]
    /\ now = 1
    /\ isConnected = TRUE
    /\ listPc = "done"
    /\ ydoc = [d \in IsoDocs |-> [live |-> TRUE, doc |-> IsoContent(d)]]
    /\ conns = [d \in IsoDocs |-> 1]
    /\ incar = [d \in IsoDocs |-> 1]
    /\ issued = [d \in IsoDocs |-> [c \in Clients |-> 0]]
    /\ bind = [d \in IsoDocs |-> NoBind]
    /\ loads = {}
    /\ stores = <<>>
    /\ writes = {}
    /\ mergeLog = [d \in IsoDocs |-> [seen |-> FALSE, pre |-> {}, persisted |-> {}, post |-> {}]]
    /\ closeLog = [d \in IsoDocs |-> NoClose]
    /\ lastWrite = [d \in IsoDocs |-> [by |-> "none", prev |-> NoRecord, read |-> NoRecord,
                                       upd |-> UpdateBytes({})]]
    /\ sig = "up"
    /\ hist = [d \in IsoDocs |-> NoHist(NoRecord)]
    /\ gate = NoGate
    /\ net = NoNet

\* No store operation of document d is in flight: the operations of one
\* document are called one after another here, those of different documents
\* overlap.
IdleFor(d) ==
    /\ \A i \in DOMAIN stores : stores[i].doc # d
    /\ \A w \in writes : w.doc # d
    /\ \A l \in loads : l.doc = d => l.pc \in {"resolved", "rejected"}

\* mdb.getYDoc(d), once between two writes of the document.
IsoGetYDoc(d) ==
    /\ IdleFor(d)
    /\ \A l \in loads : l.doc # d
    /\ loads' = loads \cup {NewLoad(d, incar[d])}
    /\ UNCHANGED <<gate, net, sig, hist, store, now, isConnected, listPc, ydoc, conns, incar, issued, bind,
                   stores, writes, mergeLog, closeLog, lastWrite>>

\* mdb.storeUpdate(d, u) with an update of the document's content; the result
\* of an earlier getYDoc of the document is let go.
IsoStoreUpdate(d) ==
    /\ IdleFor(d)
    /\ now + Len(stores) + Cardinality(writes) <= MaxWrites
    /\ stores' = Append(stores, NewStore(d, UpdateBytes(IsoContent(d))))
    /\ loads' = {l \in loads : l.doc # d}
    /\ UNCHANGED <<gate, net, sig, hist, store, now, isConnected, listPc, ydoc, conns, incar, issued, bind,
                   writes, mergeLog, closeLog, lastWrite>>

\* mdb.writeState(d, doc) with the document.
IsoWriteState(d) ==
    /\ IdleFor(d)
    /\ now + Len(stores) + Cardinality(writes) <= MaxWrites
    /\ writes' = writes \cup {[doc |-> d, bytes |-> encodeStateAsUpdate(ydoc[d].doc),
                               pc |-> Entry("write")]}
    /\ loads' = {l \in loads : l.doc # d}
    /\ UNCHANGED <<gate, net, sig, hist, store, now, isConnected, listPc, ydoc, conns, incar, issued, bind,
                   stores, mergeLog, closeLog, lastWrite>>

NextIsolation ==
    \/ \E d \in IsoDocs : IsoGetYDoc(d)
    \/ \E d \in IsoDocs : IsoStoreUpdate(d)
    \/ \E d \in IsoDocs : IsoWriteState(d)
    \/ \E l \in loads : LoadFind(l)
    \/ \E i \in DOMAIN stores : StoreFind(i)
    \/ \E i \in DOMAIN stores : StoreWrite(i)
    \/ \E w \in writes : WriteWrite(w)

SpecIsolation == InitIsolation /\ [][NextIsolation]_vars

\* ------------------------------------------- a name that is no ObjectId
\* A seventh specification: the store operations called for a document whose
\* name cannot be converted to an ObjectId, next to one whose name can, from
\* a store that is not connected yet.
IdDocs == {"ab01", "nothex"}

InitIds ==
    /\ store = [k \in {ObjectId(d) : d \in {x \in IdDocs : Convertible(x)}} |->
                    Record(BinaryOf(UpdateBytes({<<"A", 0>>})), 0)]
    /\ now = 1
    /\ isConnected = FALSE
    /\ listPc = "done"
    /\ ydoc \in [IdDocs -> {[live |-> TRUE, doc |-> D] : D \in {NewDoc, {<<"N", 0>>}}}]
    /\ conns = [d \in IdDocs |-> 1]
    /\ incar = [d \in IdDocs |-> 1]
    /\ issued = [d \in IdDocs |-> [c \in Clients |-> 0]]
    /\ bind = [d \in IdDocs |-> NoBind]
    /\ loads = {}
    /\ stores = <<>>
    /\ writes = {}
    /\ mergeLog = [d \in IdDocs |-> [seen |-> FALSE, pre |-> {}, persisted |-> {}, post |-> {}]]
    /\ closeLog = [d \in IdDocs |-> NoClose]
    /\ lastWrite = [d \in IdDocs |-> [by |-> "none", prev |-> NoRecord, read |-> NoRecord,
                                      upd |-> UpdateBytes({})]]
    /\ sig = "up"
    /\ hist = [d \in IdDocs |-> NoHist(NoRecord)]
    /\ gate = NoGate
    /\ net = NoNet

NextIds ==
    \/ \E d \in IdDocs : IsoGetYDoc(d)
    \/ \E d \in IdDocs : IsoStoreUpdate(d)
    \/ \E d \in IdDocs : IsoWriteState(d)
    \/ \E l \in loads : LoadConnect(l)
    \/ \E l \in loads : LoadFind(l)
    \/ \E i \in DOMAIN stores : StoreConnect(i)
    \/ \E i \in DOMAIN stores : StoreFind(i)
    \/ \E i \in DOMAIN stores : StoreWrite(i)
    \/ \E w \in writes : WriteConnect(w)
    \/ \E w \in writes : WriteWrite(w)

SpecIds == InitIds /\ [][NextIds]_vars

\* ------------------------------------------------------------ properties
\* A snapshot field of an unexpected shape: a wrong wire type, or bytes that
\* do not decode.
UnexpectedShape(r) ==
    r.exists /\ (r.sv.type \in {"String", "LengthFn"}
                 \/ (r.sv.type = "Binary" /\ r.sv.tag = "garbage"))

CallsFor(d, s) == Cardinality({i \in DOMAIN s : s[i].doc = d})

\* C1: when the live document already holds structs at the merge step of
\* bindState, it holds afterwards every struct it held before and every struct
\* of the persisted document getYDoc returned.
C1_NoClobberOnLoad ==
    \A d \in Docs :
        (mergeLog[d].seen /\ mergeLog[d].pre # NewDoc) =>
            /\ mergeLog[d].pre \subseteq mergeLog[d].post
            /\ mergeLog[d].persisted \subseteq mergeLog[d].post

C3_ReadMergeWrite ==
    \A d \in Docs :
        (lastWrite[d].by = "storeUpdate" /\ lastWrite[d].read = lastWrite[d].prev) =>
            /\ store[d].exists
            /\ store[d].sv = BinaryOf(UpdateBytes(SnapshotStructs(lastWrite[d].prev)
                                                  \cup lastWrite[d].upd.structs))
            /\ store[d].updatedAt > lastWrite[d].prev.updatedAt

C3_Witness ==
    \E d \in Docs :
        /\ lastWrite[d].by = "storeUpdate" /\ lastWrite[d].read = lastWrite[d].prev
        /\ SnapshotStructs(lastWrite[d].prev) # {}
        /\ ~(lastWrite[d].upd.structs \subseteq SnapshotStructs(lastWrite[d].prev))

\* C4: while bindState has not yet closed its guard window, no step adds a
\* storeUpdate call for the document.
C4_GuardWindow ==
    [][\A d \in Docs :
        bind[d].pc \in {"loading", "guard", "rejected"}
            => CallsFor(d, stores') <= CallsFor(d, stores)]_vars

C4_Witness ==
    \E d \in Docs : bind[d].pc = "guard" /\ bind[d].skipped /\ ydoc[d].doc # NewDoc

\* C5: every stored snapshot decodes to a document without pending structs.
C5_SnapshotIsFullEncoding ==
    \A d \in Docs :
        (store[d].exists /\ store[d].sv.type = "Binary" /\ store[d].sv.tag = "update")
            => Integrated(store[d].sv.structs) = store[d].sv.structs

\* C6: a storeUpdate call has not read the record while an earlier call for
\* the same document is still unfinished.
C6_PerDocumentOrder ==
    \A i, j \in DOMAIN stores :
        (i < j /\ stores[i].doc = stores[j].doc) => stores[j].pc # "write"

\* C7: a getYDoc that read a record whose snapshot has an unexpected shape ends
\* resolved, with an empty document.
C7_CorruptionRecovery ==
    \A l \in loads :
        (UnexpectedShape(l.found) /\ l.pc \in {"resolved", "rejected"})
            => (l.pc = "resolved" /\ l.result = NewDoc)

C7_Witness ==
    \E l \in loads :
        l.pc = "resolved" /\ l.found.exists /\ l.found.sv.tag = "garbage"

\* C8: once getYDoc has returned after reading a snapshot of an unexpected
\* shape, the record no longer holds such a field.
C8_CorruptionSelfHealing ==
    \A l \in loads :
        (l.pc = "resolved" /\ UnexpectedShape(l.found)) => ~UnexpectedShape(store[l.doc])

\* C9: no getYDoc call ends rejected.
C9_LoadNeverThrows ==
    /\ \A l \in loads : l.pc # "rejected"
    /\ \A d \in Docs : bind[d].pc # "rejected"

\* C10: once the guard window has closed, a step that changes the live
\* document adds exactly one storeUpdate call, which carries the structs the
\* step added.
C10_ActivePersistence ==
    [][\A d \in Docs :
        (bind[d].pc = "active" /\ ydoc[d].live /\ ydoc'[d].live
            /\ ydoc'[d].doc # ydoc[d].doc)
        => /\ Len(stores') = Len(stores) + 1
           /\ SubSeq(stores', 1, Len(stores)) = stores
           /\ stores'[Len(stores')].doc = d
           /\ stores'[Len(stores')].pc \in {"connect", "find"}
           /\ stores'[Len(stores')].update = UpdateBytes(ydoc'[d].doc \ ydoc[d].doc)]_vars

C10_Witness ==
    \E d \in Docs, i \in DOMAIN stores :
        /\ bind[d].pc = "active" /\ stores[i].doc = d
        /\ stores[i].update.structs # ydoc[d].doc


\* No call to the store for the document is in flight.
Quiet(d) ==
    /\ CallsFor(d, stores) = 0
    /\ {w \in writes : w.doc = d} = {}
    /\ {l \in loads : l.doc = d} = {}

\* C11: once the last session has closed a document, the final writeState has
\* been called for it and every store call for it has completed without a
\* store error, the persisted snapshot (last written by storeUpdate or
\* writeState) holds every struct the document had at close.
C11_FinalFlushOnClose ==
    \A d \in Docs :
        (closeLog[d].seen /\ ~ydoc[d].live /\ closeLog[d].wrote
            /\ Quiet(d) /\ hist[d].err = "none"
            /\ lastWrite[d].by \in {"storeUpdate", "writeState"})
        => closeLog[d].doc \subseteq SnapshotStructs(store[d])

\* C12: with no prior record and one insertion by client A alone, once saves
\* are allowed and every store call has completed without error the persisted
\* snapshot decodes to the text of the live document.
C12_SingleClientPersisted ==
    \A d \in Docs :
        (~hist[d].prior.exists /\ ydoc[d].live /\ bind[d].pc = "active"
            /\ issued[d]["A"] = 1 /\ issued[d]["B"] = 0 /\ <<"A", 0>> \in ydoc[d].doc
            /\ Quiet(d) /\ hist[d].err = "none")
        => ContentText(SnapshotStructs(store[d])) = ContentText(ydoc[d].doc)

\* C13: with no prior record, when clients A and B each made one insertion
\* after the load completed and saves were allowed, and every store call has
\* completed without error, the persisted snapshot holds both insertions.
C13_ConcurrentClientsPersisted ==
    \A d \in Docs :
        (~hist[d].prior.exists /\ ydoc[d].live /\ bind[d].pc = "active"
            /\ mergeLog[d].seen /\ mergeLog[d].post = NewDoc /\ ~bind[d].skipped
            /\ ydoc[d].doc = {<<"A", 0>>, <<"B", 0>>}
            /\ Quiet(d) /\ hist[d].err = "none")
        => ydoc[d].doc \subseteq SnapshotStructs(store[d])

\* C14: no failure of a storeUpdate or writeState call leaves the call as a
\* rejection: every one ends in the catch block of the call.
C14_StoreFailureCaught ==
    \A d \in Docs : hist[d].err # "escaped"

\* C15: after the first successful write that follows a failed storeUpdate, the
\* persisted snapshot holds the structs of the failed update.
C15_CarryForward ==
    \A d \in Docs : hist[d].owed \subseteq SnapshotStructs(store[d])

\* C16: when the shutdown handler releases the store connection, the state of
\* every open document is in the store.
C16_ShutdownOrdering ==
    \A d \in Docs : hist[d].atRelease # "unflushed"

\* C17: after the merge step of bindState the live document holds every struct
\* of the persisted document, whatever text the extractor finds in it.
C17_MergeUnconditional ==
    \A d \in Docs : mergeLog[d].seen => mergeLog[d].persisted \subseteq mergeLog[d].post

\* C18: the writeState callback of a document that holds any struct goes on to
\* mdb.writeState, also when the extracted text is empty.
C18_ExtractorDoesNotDecide ==
    \A d \in Docs : (closeLog[d].seen /\ closeLog[d].doc # NewDoc) => closeLog[d].wrote


\* C19: a getYDoc that read the record a writeState wrote from document D,
\* with no write in between, returns a document whose full-state encoding is
\* that of D.
C19_RoundTrip ==
    \A l \in loads :
        (l.pc = "resolved" /\ l.found.exists /\ l.found = store[l.doc]
            /\ lastWrite[l.doc].by = "writeState"
            /\ lastWrite[l.doc].upd = encodeStateAsUpdate(ydoc[l.doc].doc))
        => encodeStateAsUpdate(l.result) = encodeStateAsUpdate(ydoc[l.doc].doc)

C19_Witness ==
    \E l \in loads :
        /\ l.pc = "resolved" /\ l.found.exists /\ l.found = store[l.doc]
        /\ lastWrite[l.doc].by = "writeState"
        /\ hist[l.doc].prior.exists
        /\ l.result = ydoc[l.doc].doc /\ Cardinality(l.result) > 1

\* C20: applying an update a second time changes nothing: for Y.applyUpdate of
\* the persisted snapshot to the caller's document, for the merge step of
\* bindState with that snapshot, and for a storeUpdate whose update is already
\* in the snapshot it read and wrote over, which leaves the snapshot as it was.
C20_Idempotence ==
    /\ \A d \in Docs :
        LET D == ydoc[d].doc
            U == SnapshotStructs(store[d])
            once == applyUpdate(D, UpdateBytes(U)).doc
        IN  /\ encodeStateAsUpdate(applyUpdate(once, UpdateBytes(U)).doc) = encodeStateAsUpdate(once)
            /\ BindStateMerge(BindStateMerge(D, U), U) = BindStateMerge(D, U)
    /\ \A d \in Docs :
        (lastWrite[d].by = "storeUpdate" /\ lastWrite[d].read = lastWrite[d].prev
            /\ lastWrite[d].prev.exists /\ lastWrite[d].prev.sv.type = "Binary"
            /\ lastWrite[d].prev.sv.tag = "update"
            /\ lastWrite[d].upd.structs \subseteq lastWrite[d].prev.sv.structs)
        => store[d].sv = lastWrite[d].prev.sv

C20_Witness ==
    \E d \in Docs :
        /\ lastWrite[d].by = "storeUpdate" /\ lastWrite[d].read = lastWrite[d].prev
        /\ lastWrite[d].prev.exists /\ lastWrite[d].prev.sv.type = "Binary"
        /\ lastWrite[d].prev.sv.tag = "update"
        /\ lastWrite[d].upd.structs # {}
        /\ lastWrite[d].upd.structs \subseteq lastWrite[d].prev.sv.structs
        /\ lastWrite[d].upd.structs # lastWrite[d].prev.sv.structs
        /\ store[d].updatedAt > lastWrite[d].prev.updatedAt


\* storeUpdate(id, a) run to its end on record r, then storeUpdate(id, b): the
\* outcome of the second call.
StoreTwice(r, a, b) ==
    LET first == StoreUpdateMerge(r, a)
        mid == IF first.ok THEN Record(BinaryOf(first.bytes), 0) ELSE r
    IN  StoreUpdateMerge(mid, b)

C22_ExtractorTotal ==
    \A d \in Docs : closeLog[d].seen =>
        /\ ~closeLog[d].threw
        /\ DOMAIN closeLog[d].text = 1 .. Len(closeLog[d].text)
        /\ closeLog[d].doc = NewDoc => closeLog[d].text = <<>>

C22_Witness ==
    \E d \in Docs :
        /\ closeLog[d].seen /\ closeLog[d].fault = "fallbackOuter"
        /\ RootMap(closeLog[d].doc) # {} /\ RootStart(closeLog[d].doc) # {}
        /\ closeLog[d].text = <<>>

\* The text of the container of another name.
OtherText(doc) == SingleText(doc, "N")

\* The text the preference order names: the first non-empty one of 'content',
\* 'lexical', 'root' (whose structs carry no text here) and 'editor', else the
\* text of every text-bearing container.
PreferredText(doc) ==
    IF Len(ContentText(doc)) > 0 THEN ContentText(doc)
    ELSE IF Len(LexicalText(doc)) > 0 THEN LexicalText(doc)
    ELSE IF Len(EditorText(doc)) > 0 THEN EditorText(doc)
    ELSE OtherText(doc)

\* C23: when no step raises, extractTextFromYDoc returns the text of the
\* first non-empty container in the order 'content', 'lexical', 'root',
\* 'editor', else the concatenation of the text of every text-bearing
\* container.
C23_PreferenceOrder ==
    \A d \in Docs : (closeLog[d].seen /\ closeLog[d].fault = "none")
        => closeLog[d].text = PreferredText(closeLog[d].doc)


\* The deltas of the mutations applied while session c was attached and that
\* came from another session, in the order they were applied.
DueTo(c) ==
    LET Due(e) == c \in e.att /\ e.from # c
        due == SelectSeq(net.applied, Due)
    IN  [k \in 1 .. Len(due) |-> due[k].delta]

\* C24: each session has been sent exactly the deltas of the mutations that
\* other sessions made while it was attached, in the order the mutations were
\* applied to the shared document.
C24_BroadcastRule ==
    \A c \in Clients : net.inbox[c] = DueTo(c)

C24_Witness ==
    /\ Len(net.applied) = 3
    /\ net.applied[1].from = "A" /\ net.applied[2].from = "B" /\ net.applied[3].from = "A"
    /\ Len(net.inbox["B"]) = 2 /\ Len(net.inbox["A"]) = 1


\* C26: once the gate has run, the editor is editable only while the flag
\* __Y_SYNCED__ is true.
C26_EditingGate ==
    (gate.mounted /\ gate.editable) => gate.synced = "true"


\* The store operations that found isConnected false and are awaiting
\* client.connect().
Establishing ==
    Cardinality({l \in loads : l.pc = "connect"})
    + Cardinality({i \in DOMAIN stores : stores[i].pc = "connect"})
    + Cardinality({w \in writes : w.pc = "connect"})
    + (IF listPc = "connect" THEN 1 ELSE 0)

\* C25: however many store operations start concurrently, at most one of
\* them is establishing the connection at a time.
C25_ConnectionSingleton ==
    Establishing <= 1

\* After destroy() has returned the connection stays closed.
C25_TornDownOnShutdown ==
    sig \in {"serverClosed", "exited"} => ~isConnected


\* C27: when every update event since the merge has been handed to
\* storeUpdate, and all those calls have completed without a store error, the
\* persisted snapshot holds every one of those updates.
C27_NoLostUpdate ==
    \A d \in Docs :
        (ydoc[d].live /\ bind[d].pc = "active" /\ mergeLog[d].seen /\ ~bind[d].skipped
            /\ Quiet(d) /\ hist[d].err = "none" /\ lastWrite[d].by = "storeUpdate")
        => (ydoc[d].doc \ mergeLog[d].post) \subseteq SnapshotStructs(store[d])


\* C28: a document a session has opened is never left short of Active with
\* nothing pending that would take it there: while it is not Active, its load
\* is still in flight or its guard timer is set.
C28_LifecycleProgress ==
    \A d \in Docs :
        (ydoc[d].live /\ bind[d].pc # "active")
        => \/ \E l \in loads : l.doc = d /\ IsCurrent(l)
           \/ bind[d].pc = "guard"


\* A record whose snapshot is bytes that Y.applyUpdate throws on.
Undecodable(r) ==
    /\ r.exists /\ Truthy(r.sv) /\ ToUint8Array(r.sv).has
    /\ ByteLength(ToUint8Array(r.sv).bytes) > 0
    /\ ~applyUpdate(NewDoc, ToUint8Array(r.sv).bytes).ok

C29_StoreIsolation ==
    /\ \A d \in IsoDocs : SnapshotStructs(store[ObjectId(d)]) \subseteq IsoContent(d)
    /\ \A l \in loads : l.result \subseteq IsoContent(l.doc)

\* Documents whose names give different ObjectIds do not touch each other's
\* records.
C29_IsolatedByObjectId ==
    /\ \A d \in IsoDocs :
        SnapshotStructs(store[ObjectId(d)])
            \subseteq UNION {IsoContent(e) : e \in {x \in IsoDocs : ObjectId(x) = ObjectId(d)}}
    /\ \A l \in loads :
        l.result \subseteq UNION {IsoContent(e) : e \in {x \in IsoDocs : ObjectId(x) = ObjectId(l.doc)}}


\* C31: for a document whose name cannot be converted to an ObjectId no
\* getYDoc has rejected and no storeUpdate or writeState has thrown to its
\* caller; a getYDoc that ended returned an empty document, and nothing was
\* written for the name.
C31_InconvertibleId ==
    \A d \in IdDocs :
        ~Convertible(d)
        => /\ hist[d].err # "escaped"
           /\ \A l \in loads : l.doc = d => (l.pc # "rejected" /\ l.result = NewDoc)
           /\ lastWrite[d].by = "none"

\* Whatever connect() does, no operation for such a name gets as far as a
\* write, a getYDoc for it never returns anything but an empty document, and
\* no record changes but by an operation of its own document.
C31_NothingWritten ==
    \A d \in IdDocs :
        ~Convertible(d)
        => /\ \A l \in loads : l.doc = d => l.result = NewDoc
           /\ \A i \in DOMAIN stores : stores[i].doc = d => stores[i].pc # "write"
           /\ lastWrite[d].by = "none"
           /\ \A e \in IdDocs : (Convertible(e) /\ lastWrite[e].by = "none")
                => store[ObjectId(e)].updatedAt = 0


MayConnect(p) == p.ws \in {"open", "connecting"} \/ p.shouldConnect \/ p.timer

\* C33: for each document id at most one provider is connected or may still
\* connect, and when there is one the registry entry of the id names it.
C33_ProviderUniqueness ==
    \A id \in GateDocs :
        LET alive == {k \in DOMAIN gate.providers :
                        gate.providers[k].id = id /\ MayConnect(gate.providers[k])}
        IN  /\ Cardinality(alive) <= 1
            /\ alive # {} => gate.registry[id] \in alive

\* C34: the provider createWebsocketProvider(id, doc) returned synchronizes
\* the Y.Doc passed in that call.
C34_BoundToSuppliedDoc ==
    gate.returned.provider # 0
        => gate.providers[gate.returned.provider].doc = gate.returned.doc


\* C35: a provider whose socket was closed with code 1008 as many times in a
\* row as the limit, with no successful connection in between, no longer
\* reconnects.
C35_AuthBackOff ==
    \A k \in DOMAIN gate.providers :
        gate.providers[k].closes >= AuthFailureLimit
            => (~gate.providers[k].shouldConnect /\ gate.providers[k].ws = "none")

\* A successful connection leaves the count of failures at zero.
C35_ResetOnConnect ==
    \A k \in DOMAIN gate.providers :
        gate.providers[k].ws = "open" => gate.providers[k].consecutiveAuthFailures = 0

\* C36: no update made while isInitialSync is true and the editor text is
\* empty has been sent over the socket.
C36_InitialSyncProtection ==
    \A k \in DOMAIN gate.providers : ~gate.providers[k].sentGuarded

====
